---- MODULE Spec2Model ----
(***************************************************************************)
(* ShowRandomImage.ino: the retry controller of loop(), the listing fetch  *)
(* and selection of getRandomImageUrl(), the download / verify / render    *)
(* pipeline of displayImage() and drawImageFile().                         *)
(*                                                                         *)
(* Text is a sequence of one-character strings, an asset a sequence of     *)
(* bytes.  The network peer, the JSON parser's verdict, the storage        *)
(* driver's open() results and the PNG decoder's status codes are inputs   *)
(* chosen by the environment.  Listing entries always carry a name and a   *)
(* type (strcmp on a missing field is outside the model).                  *)
(***************************************************************************)
EXTENDS Integers, Sequences, FiniteSets, TLC

\* ------------------------------------------------------------------ bounds
MaxListingLen == 2
MaxAssetLen == 8

\* ------------------------------------------------------- program constants
maxAttempts == 6
StartDelay == 3000
ListingFailDelay == 10000
UnsupportedDelay == 500
OtherErrorDelay == 5000
CycleDelay == 60000

rawGithubUrl == <<"https://raw.githubusercontent.com/Daamsed/DaamsedMatrixProjects/main/images/output_img/">>

\* the four signature bytes the code compares (0x89 0x50 0x4E 0x47)
PngSignature == <<137, 80, 78, 71>>

\* ------------------------------------------------------------- text helpers
Min(a, b) == IF a < b THEN a ELSE b

Take(s, n) == SubSeq(s, 1, Min(n, Len(s)))

\* strstr(haystack, needle): position of the first occurrence, 0 for nullptr
strstr(haystack, needle) ==
  LET hits == {i \in 1..(Len(haystack) - Len(needle) + 1) :
                 SubSeq(haystack, i, i + Len(needle) - 1) = needle}
  IN IF hits = {} THEN 0 ELSE CHOOSE i \in hits : \A j \in hits : i <= j

DotPngLower == <<".", "p", "n", "g">>
DotPngUpper == <<".", "P", "N", "G">>

\* the filter of both loops of getRandomImageUrl
IsImageEntry(item) ==
  /\ item.type = "file"
  /\ (strstr(item.name, DotPngLower) # 0 \/ strstr(item.name, DotPngUpper) # 0)

\* first loop: imageCount
RECURSIVE CountImages(_)
CountImages(doc) ==
  IF doc = <<>> THEN 0
  ELSE (IF IsImageEntry(Head(doc)) THEN 1 ELSE 0) + CountImages(Tail(doc))

\* mutant: the second loop counts every entry, not only the image entries
RECURSIVE SelectUrlUnfiltered(_, _, _)
SelectUrlUnfiltered(doc, currentIndex, randomIndex) ==
  IF doc = <<>> THEN <<>>
  ELSE IF currentIndex = randomIndex
       THEN rawGithubUrl \o Head(doc).name
       ELSE SelectUrlUnfiltered(Tail(doc), currentIndex + 1, randomIndex)

\* second loop: the URL of the randomIndex-th image entry, "" when the loop
\* falls through
RECURSIVE SelectUrl(_, _, _)
SelectUrl(doc, currentIndex, randomIndex) ==
  IF doc = <<>> THEN <<>>
  ELSE IF IsImageEntry(Head(doc))
       THEN IF currentIndex = randomIndex
            THEN rawGithubUrl \o Head(doc).name
            ELSE SelectUrl(Tail(doc), currentIndex + 1, randomIndex)
       ELSE SelectUrl(Tail(doc), currentIndex, randomIndex)

\* ------------------------------------------------------- environment inputs
Names == { <<"a", ".", "p", "n", "g">>,
           <<"b", ".", "P", "N", "G">>,
           <<"c", ".", "P", "n", "g">>,
           <<"d", ".", "p", "n", "g", ".", "t", "x", "t">>,
           <<"e", ".", "t", "x", "t">> }

Entries == {[name |-> n, type |-> "file"] : n \in Names}
             \cup {[name |-> <<"a", ".", "p", "n", "g">>, type |-> "dir"]}

Listings == UNION {[1..n -> Entries] : n \in 0..MaxListingLen}

\* leading bytes a peer may send: the PNG header, two near misses, a JPEG header
Headers == { <<137, 80, 78, 71, 13, 10, 26, 10>>,
             <<137, 80, 78, 70, 13, 10, 26, 10>>,
             <<136, 80, 78, 71, 13, 10, 26, 10>>,
             <<255, 216, 255, 224, 0, 16, 74, 70>> }

Pad(h, n) == [i \in 1..n |-> IF i <= Len(h) THEN h[i] ELSE 0]

Assets == {Pad(h, n) : h \in Headers, n \in 0..MaxAssetLen}

NoFile == [exists |-> FALSE, bytes |-> <<>>]
File(b) == [exists |-> TRUE, bytes |-> b]

\* -------------------------------------------------------------------- state
VARIABLES
  pc,                  \* position of loop(): "Idle", "WhileTest", "FetchListing",
                       \*   "UrlTest", "Display", "ResultTest", "AfterLoop"
  attempt,             \* loop()'s attempt counter
  fetches,             \* calls of getRandomImageUrl() made in this cycle
  fetchOutcome,        \* how the last getRandomImageUrl() call of this attempt ended
  listing,             \* the parsed listing (doc), live until the caller tests the URL
  imageCount,          \* imageCount of that call
  imageUrl,            \* loop()'s imageUrl, <<>> for the empty String
  slot,                \* the file at imageLocation
  asset,               \* the bytes the transfer of this attempt delivered
  stage,               \* how far displayImage() got in this attempt
  displayImageResult,  \* loop()'s displayImageResult, 1 while not assigned
  renderOutcome,       \* what drawImageFile() did in this attempt
  loopDelay,           \* argument of the delay() the last step of loop() made, 0 if none
  report,              \* what loop() printed after the while loop of this cycle
  drawnIndex,          \* randomIndex of the last getRandomImageUrl() call
  slotAtOpen,          \* the file at imageLocation when displayImage() opened it "w+"
  slotAtWrite,         \* the file at imageLocation when getImage() began to write
  slotOps,             \* the storage calls of the last displayImage(), each with the
                       \*   handles open when it was made
  myfileOpen,          \* the global myfile holds an open handle
  iWidth,              \* PNGDraw: pDraw->iWidth of the image being decoded
  lineY,               \* PNGDraw: pDraw->y of the next scanline
  lineBufWritten,      \* PNGDraw: entries of lineBuf the last conversion wrote
  blit,                \* PNGDraw: the last drawRGBBitmap(x, y, lineBuf, w, 1) call
  fpc,                 \* position of getRandomImageUrl()
  apiClientOpen,       \* apiClient holds a connection that was not stopped
  peerConnected,       \* apiClient.connected()
  headerLines,         \* headerLines of the header loop
  headerTimeouts,      \* reads of the header loop that ran into the 10 s timeout
  bodyElapsed,         \* millis() - startTime of the body loop
  payloadLen           \* payload.length()

drawVars == <<iWidth, lineY, lineBufWritten, blit>>

fetchVars == <<fpc, apiClientOpen, peerConnected, headerLines, headerTimeouts, bodyElapsed, payloadLen>>

loopVars == <<pc, attempt, fetches, fetchOutcome, listing, imageCount, imageUrl, slot, asset, stage, displayImageResult, renderOutcome, loopDelay, report, drawnIndex, slotAtOpen, slotAtWrite, slotOps, myfileOpen>>

vars == <<loopVars, drawVars, fetchVars>>

NotAssigned == 1

\* ------------------------------------------------------- getRandomImageUrl()
\* random(min, max) of the Arduino core: a value of min .. max-1
random(lo, hi) == IF lo >= hi THEN {lo} ELSE lo..(hi - 1)

\* the tail of getRandomImageUrl() once the payload has parsed to doc
SelectFromListing(doc, randomIndex) ==
  LET n == CountImages(doc)
  IN IF n = 0
     THEN [outcome |-> "EmptyDirectory", count |-> n, url |-> <<>>]
     ELSE LET url == SelectUrl(doc, 0, randomIndex)
          IN [outcome |-> IF url = <<>> THEN "FellThrough" ELSE "Selected",
              count |-> n, url |-> url]

\* the early returns of getRandomImageUrl(): every one returns ""
FetchFailures == {"WiFiDown", "NetworkError", "EmptyResponse", "ParseError"}

\* -------------------------------------------------------------- drawImageFile()
RenderFailures == {"DiagOpenFailed", "SkippedDraw", "PngOpenFailed", "DecodeFailed"}

\* header[0..3] of drawImageFile(): read only when the file holds 8 bytes or more
DrawHeader(bytes) == IF Len(bytes) >= 8 THEN Take(bytes, 8) ELSE Pad(<<>>, 8)

\* mutant: the last signature byte compared with the wrong value
IsPngSignatureWrongByte(hdr) == hdr[1] = 137 /\ hdr[2] = 80 /\ hdr[3] = 78 /\ hdr[4] = 70

IsPngSignature(hdr) ==
  hdr[1] = PngSignature[1] /\ hdr[2] = PngSignature[2]
    /\ hdr[3] = PngSignature[3] /\ hdr[4] = PngSignature[4]

\* mutant: the decoder is chosen without looking at the header
drawImageFileNoHeaderTest(file, diagOpenOk, pngOpenStatus, decodeStatus) ==
  IF ~(file.exists /\ diagOpenOk) THEN "DiagOpenFailed"
  ELSE IF pngOpenStatus = 0
       THEN (IF decodeStatus = 0 THEN "Decoded" ELSE "DecodeFailed")
       ELSE "PngOpenFailed"

drawImageFile(file, diagOpenOk, pngOpenStatus, decodeStatus) ==
  IF ~(file.exists /\ diagOpenOk) THEN "DiagOpenFailed"
  ELSE IF IsPngSignature(DrawHeader(file.bytes))
       THEN IF pngOpenStatus = 0
            THEN (IF decodeStatus = 0 THEN "Decoded" ELSE "DecodeFailed")
            ELSE "PngOpenFailed"
       ELSE "SkippedDraw"

\* ---------------------------------------------------------------- getImage()
\* WebRequest.h: streams the body into the open file; false when the transfer
\* fails or no byte was written
getImage(bytes, transferOk) ==
  [file |-> File(bytes), gotImage |-> transferOk /\ Len(bytes) > 0]

\* --------------------------------------------------------------- displayImage()
\* n >= 4 of the verify step
HeaderCheckApplies(n) == n >= 4

\* mutant: the existing file is left in place
RemoveExistingSkipped(old) == old

\* if (SPIFFS.exists(imageLocation)) SPIFFS.remove(imageLocation)
RemoveExisting(old) == IF old.exists THEN NoFile ELSE old

\* SPIFFS.open(imageLocation, "w+"): the file is created or truncated
OpenForWrite(old) == File(<<>>)

displayImage(old, openOk, bytes, transferOk, checkOpenOk, diagOpenOk, pngOpenStatus, decodeStatus) ==
  LET removed == RemoveExisting(old)
      got == getImage(bytes, transferOk)
      n == Min(8, Len(got.file.bytes))
      hdr == Pad(got.file.bytes, 8)
  IN IF ~openOk
     THEN [result |-> -1, slot |-> removed, asset |-> <<>>, stage |-> "Open",
           render |-> "None"]
     ELSE IF ~got.gotImage
     THEN [result |-> -2, slot |-> got.file, asset |-> bytes, stage |-> "Download",
           render |-> "None"]
     ELSE IF ~checkOpenOk
     THEN [result |-> -2, slot |-> got.file, asset |-> bytes, stage |-> "VerifyOpen",
           render |-> "None"]
     ELSE IF HeaderCheckApplies(n) /\ ~IsPngSignature(hdr)
     THEN [result |-> -3, slot |-> NoFile, asset |-> bytes, stage |-> "Verify",
           render |-> "None"]
     ELSE [result |-> 0, slot |-> got.file, asset |-> bytes, stage |-> "Render",
           render |-> drawImageFile(got.file, diagOpenOk, pngOpenStatus,
                                    decodeStatus)]

\* ------------------------------------------------------------ file handles
\* One storage call on imageLocation: op is "open", "openfail", "close" or
\* "remove"; h names the File object ("f" of displayImage, "check", "diag" of
\* drawImageFile, the global "myfile"), "" for a remove.
SlotOp(op, h) == [op |-> op, h |-> h]

\* the handles open after the calls ops, open0 being open before them
RECURSIVE HeldAfter(_, _)
HeldAfter(ops, open0) ==
  IF ops = <<>> THEN open0
  ELSE LET before == HeldAfter(SubSeq(ops, 1, Len(ops) - 1), open0)
           last == ops[Len(ops)]
       IN CASE last.op = "open" -> before \cup {last.h}
            [] last.op = "close" -> before \ {last.h}
            [] OTHER -> before

\* each call with the handles that were open when it was made
WithHeld(ops, open0) ==
  [k \in 1..Len(ops) |->
     [op |-> ops[k].op, h |-> ops[k].h,
      held |-> HeldAfter(SubSeq(ops, 1, k - 1), open0)]]

\* png.open(.., myOpen, myClose, ..), png.decode(), png.close(): myOpen opens
\* myfile; png.close() calls myClose; after a failed png.open the sketch calls
\* nothing, myfile is closed only if the library did it (libCloses)
PngOps(myOpenOk, pngOpenStatus, libCloses) ==
  IF ~myOpenOk THEN <<SlotOp("openfail", "myfile")>>
  ELSE IF pngOpenStatus = 0 THEN <<SlotOp("open", "myfile"), SlotOp("close", "myfile")>>
  ELSE IF libCloses THEN <<SlotOp("open", "myfile"), SlotOp("close", "myfile")>>
  ELSE <<SlotOp("open", "myfile")>>

\* the storage calls of drawImageFile() along the path that gave `render`
drawImageFileOps(render, myOpenOk, pngOpenStatus, libCloses) ==
  IF render = "DiagOpenFailed" THEN <<SlotOp("openfail", "diag")>>
  ELSE <<SlotOp("open", "diag"), SlotOp("close", "diag")>>
         \o (IF render = "SkippedDraw" THEN <<>>
             ELSE PngOps(myOpenOk, pngOpenStatus, libCloses))

\* the storage calls of displayImage() along the path that gave result r
displayImageOps(old, r, myOpenOk, pngOpenStatus, libCloses) ==
  LET pre == IF old.exists /\ RemoveExisting(old) # old THEN <<SlotOp("remove", "")>> ELSE <<>>
      wr == <<SlotOp("open", "f"), SlotOp("close", "f")>>
      chk == <<SlotOp("open", "check"), SlotOp("close", "check")>>
  IN CASE r.stage = "Open" -> pre \o <<SlotOp("openfail", "f")>>
       [] r.stage = "Download" -> pre \o wr
       [] r.stage = "VerifyOpen" -> pre \o wr \o <<SlotOp("openfail", "check")>>
       [] r.stage = "Verify" -> pre \o wr \o chk \o <<SlotOp("remove", "")>>
       [] r.stage = "Render" ->
            pre \o wr \o chk
              \o drawImageFileOps(r.render, myOpenOk, pngOpenStatus, libCloses)

\* -------------------------------------------------------------------- loop()
\* mutant: the bound tested with <= (one attempt too many)
LoopContinuesOffByOne(a) == a <= maxAttempts

\* while (attempt < maxAttempts)
LoopContinues(a) == a < maxAttempts

\* mutant: the empty URL is never recognised
UrlIsEmptyNever(url) == Len(url) < 0

\* if (imageUrl.length() == 0)
UrlIsEmpty(url) == Len(url) = 0

\* if (attempt >= maxAttempts) after the while loop
ReportsExhausted(a) == a >= maxAttempts

\* no scanline drawn yet
NoBlit == [x |-> 0, y |-> 0, w |-> 0]

DrawIdle ==
  /\ iWidth = 0
  /\ lineY = 0
  /\ lineBufWritten = 0
  /\ blit = NoBlit

\* getRandomImageUrl() not running
FetchIdle ==
  /\ fpc = "Idle"
  /\ apiClientOpen = FALSE
  /\ peerConnected = FALSE
  /\ headerLines = 0
  /\ headerTimeouts = 0
  /\ bodyElapsed = 0
  /\ payloadLen = 0

Init ==
  /\ pc = "Idle"
  /\ attempt = 0
  /\ fetches = 0
  /\ fetchOutcome = "None"
  /\ listing = <<>>
  /\ imageCount = 0
  /\ imageUrl = <<>>
  /\ slot \in {NoFile} \cup {File(b) : b \in Assets}
  /\ asset = <<>>
  /\ stage = "None"
  /\ displayImageResult = NotAssigned
  /\ renderOutcome = "None"
  /\ loopDelay = 0
  /\ report = "None"
  /\ drawnIndex = 0
  /\ slotAtOpen = NoFile
  /\ slotAtWrite = NoFile
  /\ slotOps = <<>>
  /\ myfileOpen = FALSE
  /\ DrawIdle
  /\ FetchIdle

\* entry of loop(): delay(3000), attempt = 0
LoopEntry ==
  /\ pc = "Idle"
  /\ pc' = "WhileTest"
  /\ attempt' = 0
  /\ fetches' = 0
  /\ fetchOutcome' = "None"
  /\ asset' = <<>>
  /\ stage' = "None"
  /\ displayImageResult' = NotAssigned
  /\ renderOutcome' = "None"
  /\ loopDelay' = StartDelay
  /\ report' = "None"
  /\ UNCHANGED <<listing, imageCount, imageUrl, slot>>
  /\ drawnIndex' = 0
  /\ slotAtOpen' = NoFile
  /\ slotAtWrite' = NoFile
  /\ slotOps' = <<>>
  /\ UNCHANGED myfileOpen
  /\ UNCHANGED <<drawVars, fetchVars>>

\* the while test holds: attempt++, a new iteration with fresh locals
BeginAttempt ==
  /\ pc = "WhileTest"
  /\ LoopContinues(attempt)
  /\ pc' = "FetchListing"
  /\ attempt' = attempt + 1
  /\ fetchOutcome' = "None"
  /\ asset' = <<>>
  /\ stage' = "None"
  /\ displayImageResult' = NotAssigned
  /\ renderOutcome' = "None"
  /\ loopDelay' = 0
  /\ UNCHANGED <<fetches, listing, imageCount, imageUrl, slot, report>>
  /\ drawnIndex' = 0
  /\ slotAtOpen' = NoFile
  /\ slotAtWrite' = NoFile
  /\ slotOps' = <<>>
  /\ UNCHANGED myfileOpen
  /\ UNCHANGED <<drawVars, fetchVars>>

\* the while test fails: fall out of the loop
LoopExit ==
  /\ pc = "WhileTest"
  /\ ~LoopContinues(attempt)
  /\ pc' = "AfterLoop"
  /\ loopDelay' = 0
  /\ UNCHANGED <<attempt, fetches, fetchOutcome, listing, imageCount, imageUrl, slot,
                 asset, stage, displayImageResult, renderOutcome, report>>
  /\ UNCHANGED <<drawnIndex, slotAtOpen, slotAtWrite, slotOps, myfileOpen>>
  /\ UNCHANGED <<drawVars, fetchVars>>

\* String imageUrl = getRandomImageUrl(): one of the early returns
FetchFails ==
  /\ pc = "FetchListing"
  /\ \E f \in FetchFailures : fetchOutcome' = f
  /\ pc' = "UrlTest"
  /\ fetches' = fetches + 1
  /\ listing' = <<>>
  /\ imageCount' = 0
  /\ imageUrl' = <<>>
  /\ loopDelay' = 0
  /\ UNCHANGED <<attempt, slot, asset, stage, displayImageResult, renderOutcome,
                 report>>
  /\ drawnIndex' = 0
  /\ UNCHANGED <<slotAtOpen, slotAtWrite, slotOps, myfileOpen>>
  /\ UNCHANGED <<drawVars, fetchVars>>

\* String imageUrl = getRandomImageUrl(): the payload parsed
FetchParses ==
  /\ pc = "FetchListing"
  /\ \E doc \in Listings :
       \E randomIndex \in random(0, CountImages(doc)) :
         LET r == SelectFromListing(doc, randomIndex)
         IN /\ fetchOutcome' = r.outcome
            /\ listing' = doc
            /\ imageCount' = r.count
            /\ imageUrl' = r.url
            /\ drawnIndex' = randomIndex
  /\ pc' = "UrlTest"
  /\ fetches' = fetches + 1
  /\ loopDelay' = 0
  /\ UNCHANGED <<attempt, slot, asset, stage, displayImageResult, renderOutcome,
                 report>>
  /\ UNCHANGED <<slotAtOpen, slotAtWrite, slotOps, myfileOpen>>
  /\ UNCHANGED <<drawVars, fetchVars>>

\* imageUrl is empty: delay(10000); continue
UrlEmpty ==
  /\ pc = "UrlTest"
  /\ UrlIsEmpty(imageUrl)
  /\ pc' = "WhileTest"
  /\ loopDelay' = ListingFailDelay
  /\ listing' = <<>>
  /\ imageCount' = 0
  /\ UNCHANGED <<attempt, fetches, fetchOutcome, imageUrl, slot, asset, stage,
                 displayImageResult, renderOutcome, report>>
  /\ drawnIndex' = 0
  /\ UNCHANGED <<slotAtOpen, slotAtWrite, slotOps, myfileOpen>>
  /\ UNCHANGED <<drawVars, fetchVars>>

\* imageUrl is not empty: print it and go on to displayImage()
UrlGot ==
  /\ pc = "UrlTest"
  /\ ~UrlIsEmpty(imageUrl)
  /\ pc' = "Display"
  /\ loopDelay' = 0
  /\ listing' = <<>>
  /\ imageCount' = 0
  /\ UNCHANGED <<attempt, fetches, fetchOutcome, imageUrl, slot, asset, stage,
                 displayImageResult, renderOutcome, report>>
  /\ drawnIndex' = 0
  /\ UNCHANGED <<slotAtOpen, slotAtWrite, slotOps, myfileOpen>>
  /\ UNCHANGED <<drawVars, fetchVars>>

\* what the storage driver, the peer and the decoder may do to one displayImage()
\* call: nothing, or fail its first open, the transfer, the verify open, the
\* diagnostic open, the open inside myOpen, png.open (the library leaving myfile
\* open, or closing it itself) or png.decode (a later fault is never reached
\* after an earlier one, each returning early)
Faults == {"None", "Open", "Transfer", "CheckOpen", "DiagOpen", "MyOpen", "PngOpen", "PngOpenLibCloses", "Decode"}

\* int displayImageResult = displayImage(imageUrl.c_str())
DisplayImage ==
  /\ pc = "Display"
  /\ \E fault \in Faults : \E bytes \in Assets :
       LET myOpenOk == fault # "MyOpen"
           pngOpenStatus == IF fault \in {"MyOpen", "PngOpen", "PngOpenLibCloses"}
                            THEN 1 ELSE 0
           libCloses == fault = "PngOpenLibCloses"
           r == displayImage(slot, fault # "Open", bytes, fault # "Transfer",
                             fault # "CheckOpen", fault # "DiagOpen",
                             pngOpenStatus,
                             IF fault = "Decode" THEN 1 ELSE 0)
           ops == displayImageOps(slot, r, myOpenOk, pngOpenStatus, libCloses)
           open0 == IF myfileOpen THEN {"myfile"} ELSE {}
       IN /\ displayImageResult' = r.result
          /\ slot' = r.slot
          /\ asset' = r.asset
          /\ stage' = r.stage
          /\ renderOutcome' = r.render
          /\ slotAtOpen' = RemoveExisting(slot)
          /\ slotAtWrite' = IF r.stage = "Open" THEN NoFile
                            ELSE OpenForWrite(RemoveExisting(slot))
          /\ slotOps' = WithHeld(ops, open0)
          /\ myfileOpen' = ("myfile" \in HeldAfter(ops, open0))
  /\ pc' = "ResultTest"
  /\ loopDelay' = 0
  /\ UNCHANGED <<attempt, fetches, fetchOutcome, listing, imageCount, imageUrl,
                 report>>
  /\ UNCHANGED drawnIndex
  /\ UNCHANGED <<drawVars, fetchVars>>

\* displayImageResult == 0: break
ResultSuccess ==
  /\ pc = "ResultTest"
  /\ displayImageResult = 0
  /\ pc' = "AfterLoop"
  /\ loopDelay' = 0
  /\ imageUrl' = <<>>
  /\ UNCHANGED <<attempt, fetches, fetchOutcome, listing, imageCount, slot, asset,
                 stage, displayImageResult, renderOutcome, report>>
  /\ UNCHANGED <<drawnIndex, slotAtOpen, slotAtWrite, slotOps, myfileOpen>>
  /\ UNCHANGED <<drawVars, fetchVars>>

\* mutant: -3 falls into the branch of the other errors
ResultUnsupportedAsOther ==
  /\ pc = "ResultTest"
  /\ displayImageResult = -3
  /\ pc' = "WhileTest"
  /\ loopDelay' = OtherErrorDelay
  /\ imageUrl' = <<>>
  /\ UNCHANGED <<attempt, fetches, fetchOutcome, listing, imageCount, slot, asset,
                 stage, displayImageResult, renderOutcome, report>>
  /\ UNCHANGED <<drawnIndex, slotAtOpen, slotAtWrite, slotOps, myfileOpen>>
  /\ UNCHANGED <<drawVars, fetchVars>>

\* displayImageResult == -3: delay(500); continue
ResultUnsupported ==
  /\ pc = "ResultTest"
  /\ displayImageResult = -3
  /\ pc' = "WhileTest"
  /\ loopDelay' = UnsupportedDelay
  /\ imageUrl' = <<>>
  /\ UNCHANGED <<attempt, fetches, fetchOutcome, listing, imageCount, slot, asset,
                 stage, displayImageResult, renderOutcome, report>>
  /\ UNCHANGED <<drawnIndex, slotAtOpen, slotAtWrite, slotOps, myfileOpen>>
  /\ UNCHANGED <<drawVars, fetchVars>>

\* mutant: the other errors retry without the delay
ResultOtherNoDelay ==
  /\ pc = "ResultTest"
  /\ displayImageResult # 0
  /\ displayImageResult # -3
  /\ pc' = "WhileTest"
  /\ loopDelay' = 0
  /\ imageUrl' = <<>>
  /\ UNCHANGED <<attempt, fetches, fetchOutcome, listing, imageCount, slot, asset,
                 stage, displayImageResult, renderOutcome, report>>
  /\ UNCHANGED <<drawnIndex, slotAtOpen, slotAtWrite, slotOps, myfileOpen>>
  /\ UNCHANGED <<drawVars, fetchVars>>

\* mutant: the other errors leave the while loop
ResultOtherBreaks ==
  /\ pc = "ResultTest"
  /\ displayImageResult # 0
  /\ displayImageResult # -3
  /\ pc' = "AfterLoop"
  /\ loopDelay' = 0
  /\ imageUrl' = <<>>
  /\ UNCHANGED <<attempt, fetches, fetchOutcome, listing, imageCount, slot, asset,
                 stage, displayImageResult, renderOutcome, report>>
  /\ UNCHANGED <<drawnIndex, slotAtOpen, slotAtWrite, slotOps, myfileOpen>>
  /\ UNCHANGED <<drawVars, fetchVars>>

\* any other displayImageResult: delay(5000); continue
ResultOther ==
  /\ pc = "ResultTest"
  /\ displayImageResult # 0
  /\ displayImageResult # -3
  /\ pc' = "WhileTest"
  /\ loopDelay' = OtherErrorDelay
  /\ imageUrl' = <<>>
  /\ UNCHANGED <<attempt, fetches, fetchOutcome, listing, imageCount, slot, asset,
                 stage, displayImageResult, renderOutcome, report>>
  /\ UNCHANGED <<drawnIndex, slotAtOpen, slotAtWrite, slotOps, myfileOpen>>
  /\ UNCHANGED <<drawVars, fetchVars>>

\* mutant: only the exhausted branch waits
AfterLoopSuccessNoDelay ==
  /\ pc = "AfterLoop"
  /\ pc' = "Idle"
  /\ report' = IF ReportsExhausted(attempt) THEN "Exhausted" ELSE "Success"
  /\ loopDelay' = IF ReportsExhausted(attempt) THEN CycleDelay ELSE 0
  /\ UNCHANGED <<attempt, fetches, fetchOutcome, listing, imageCount, imageUrl, slot,
                 asset, stage, displayImageResult, renderOutcome>>
  /\ UNCHANGED <<drawnIndex, slotAtOpen, slotAtWrite, slotOps, myfileOpen>>
  /\ UNCHANGED <<drawVars, fetchVars>>

\* after the while loop: print the classification, delay(60000), return
AfterLoop ==
  /\ pc = "AfterLoop"
  /\ pc' = "Idle"
  /\ report' = IF ReportsExhausted(attempt) THEN "Exhausted" ELSE "Success"
  /\ loopDelay' = CycleDelay
  /\ UNCHANGED <<attempt, fetches, fetchOutcome, listing, imageCount, imageUrl, slot,
                 asset, stage, displayImageResult, renderOutcome>>
  /\ UNCHANGED <<drawnIndex, slotAtOpen, slotAtWrite, slotOps, myfileOpen>>
  /\ UNCHANGED <<drawVars, fetchVars>>

Next ==
  \/ LoopEntry
  \/ BeginAttempt
  \/ LoopExit
  \/ FetchFails
  \/ FetchParses
  \/ UrlEmpty
  \/ UrlGot
  \/ DisplayImage
  \/ ResultSuccess
  \/ ResultUnsupported
  \/ ResultOther
  \/ AfterLoop

Spec == Init /\ [][Next]_vars

TypeOK ==
  /\ pc \in {"Idle", "WhileTest", "FetchListing", "UrlTest", "Display", "ResultTest",
            "AfterLoop", "Decode"}
  /\ fpc \in {"Idle", "Entry", "Connect", "ConnectFailed", "SkipHeaders", "ReadBody",
             "AfterBody", "Parse", "Returned"}
  /\ apiClientOpen \in BOOLEAN
  /\ peerConnected \in BOOLEAN
  /\ headerTimeouts \in 0..headerLines
  /\ payloadLen \in Nat
  /\ lineBufWritten \in Nat
  /\ attempt \in 0..maxAttempts
  /\ displayImageResult \in {NotAssigned, 0, -1, -2, -3}
  /\ report \in {"None", "Exhausted", "Success"}

\* ------------------------------------------------------------------ PNGDraw()
MaxImageWidth == 66
MaxImageRow == 65

panelResX == 64
panelResY == 64
panel_chain == 1
LineClip == 64
LineBufSize == 64

\* dma_display->width() and height()
DisplayWidth == panelResX * panel_chain
DisplayHeight == panelResY

\* integer division of C: the quotient is truncated towards zero
CDiv(a, b) == IF a >= 0 THEN a \div b ELSE -((-a) \div b)

\* One call of the callback for a scanline of `width` pixels at row y:
\* getLineAsRGB565(pDraw, lineBuf, ..) is given no width and converts
\* pDraw->iWidth pixels into lineBuf; drawRGBBitmap gets the clipped w.
PNGDraw(width, y) ==
  LET w == IF width > LineClip THEN LineClip ELSE width
      x0 == CDiv(DisplayWidth - w, 2)
      xOffset == IF x0 < 0 THEN 0 ELSE x0
  IN [written |-> width, blit |-> [x |-> xOffset, y |-> y, w |-> w]]

\* loop() is inside png.decode() of an attempt that stored a PNG
LoopInDecode ==
  /\ pc = "Decode"
  /\ attempt = 1
  /\ fetches = 1
  /\ fetchOutcome = "Selected"
  /\ listing = <<>>
  /\ imageCount = 0
  /\ imageUrl = rawGithubUrl \o <<"a", ".", "p", "n", "g">>
  /\ slot = File(<<137, 80, 78, 71, 13, 10, 26, 10>>)
  /\ asset = <<137, 80, 78, 71, 13, 10, 26, 10>>
  /\ stage = "Render"
  /\ displayImageResult = NotAssigned
  /\ renderOutcome = "None"
  /\ loopDelay = 0
  /\ report = "None"
  /\ drawnIndex = 0
  /\ slotAtOpen = NoFile
  /\ slotAtWrite = File(<<>>)
  /\ slotOps = <<>>
  /\ myfileOpen = TRUE

DrawInit ==
  /\ LoopInDecode
  /\ FetchIdle
  /\ iWidth \in 1..MaxImageWidth
  /\ lineY = 0
  /\ lineBufWritten = 0
  /\ blit = NoBlit

\* the decoder hands the next scanline to PNGDraw
PNGDrawLine ==
  /\ pc = "Decode"
  /\ lineY <= MaxImageRow
  /\ LET r == PNGDraw(iWidth, lineY)
     IN /\ lineBufWritten' = r.written
        /\ blit' = r.blit
  /\ lineY' = lineY + 1
  /\ UNCHANGED <<iWidth, loopVars, fetchVars>>

DrawNext == PNGDrawLine

DrawSpec == DrawInit /\ [][DrawNext]_vars

\* ------------------------------------- getRandomImageUrl(): the connection
MaxHeaderLines == 3
MaxPayloadLen == 2
BodyTickMs == 5000

ReadTimeoutMs == 10000

callerVars == <<pc, attempt, fetches, slot, asset, stage, displayImageResult, renderOutcome, loopDelay, report, slotAtOpen, slotAtWrite, slotOps, myfileOpen>>

resultVars == <<fetchOutcome, listing, imageCount, imageUrl, drawnIndex>>

\* mutant: stop() leaves the socket as it was
stopNoop(open) == open

\* apiClient.stop(): the socket is released whether or not it was open
stop(open) == FALSE

\* loop() has called getRandomImageUrl() for the first attempt of a cycle
LoopInFetch ==
  /\ pc = "FetchListing"
  /\ attempt = 1
  /\ fetches = 0
  /\ fetchOutcome = "None"
  /\ listing = <<>>
  /\ imageCount = 0
  /\ imageUrl = <<>>
  /\ slot = NoFile
  /\ asset = <<>>
  /\ stage = "None"
  /\ displayImageResult = NotAssigned
  /\ renderOutcome = "None"
  /\ loopDelay = 0
  /\ report = "None"
  /\ drawnIndex = 0
  /\ slotAtOpen = NoFile
  /\ slotAtWrite = NoFile
  /\ slotOps = <<>>
  /\ myfileOpen = FALSE

FetchInit ==
  /\ LoopInFetch
  /\ DrawIdle
  /\ fpc = "Entry"
  /\ apiClientOpen = FALSE
  /\ peerConnected = FALSE
  /\ headerLines = 0
  /\ headerTimeouts = 0
  /\ bodyElapsed = 0
  /\ payloadLen = 0

\* return "";
ReturnsEmpty(outcome) ==
  /\ fpc' = "Returned"
  /\ fetchOutcome' = outcome
  /\ listing' = <<>>
  /\ imageCount' = 0
  /\ imageUrl' = <<>>
  /\ drawnIndex' = 0

\* if (WiFi.status() != WL_CONNECTED) return "";
WiFiCheck ==
  /\ fpc = "Entry"
  /\ \E up \in BOOLEAN :
       IF up THEN fpc' = "Connect" /\ UNCHANGED resultVars
             ELSE ReturnsEmpty("WiFiDown")
  /\ UNCHANGED <<apiClientOpen, peerConnected, headerLines, headerTimeouts, bodyElapsed, payloadLen>>
  /\ UNCHANGED <<callerVars, drawVars>>

\* apiClient.connect(githubApiUrl, 443): a failed connect may or may not
\* have left a socket allocated; after success the request is printed
Connect ==
  /\ fpc = "Connect"
  /\ \E ok \in BOOLEAN, socketLeft \in BOOLEAN :
       IF ok THEN /\ fpc' = "SkipHeaders"
                  /\ apiClientOpen' = TRUE
                  /\ peerConnected' = TRUE
             ELSE /\ fpc' = "ConnectFailed"
                  /\ apiClientOpen' = socketLeft
                  /\ peerConnected' = FALSE
  /\ UNCHANGED <<headerLines, headerTimeouts, bodyElapsed, payloadLen>>
  /\ UNCHANGED <<callerVars, resultVars, drawVars>>

\* apiClient.stop(); delay(2000); return "";
ConnectFailed ==
  /\ fpc = "ConnectFailed"
  /\ apiClientOpen' = stop(apiClientOpen)
  /\ ReturnsEmpty("NetworkError")
  /\ UNCHANGED <<peerConnected, headerLines, headerTimeouts, bodyElapsed, payloadLen>>
  /\ UNCHANGED <<callerVars, drawVars>>

\* while (apiClient.connected()) is false: on to the body, startTime = millis()
HeaderLoopExit ==
  /\ fpc = "SkipHeaders"
  /\ ~peerConnected
  /\ fpc' = "ReadBody"
  /\ bodyElapsed' = 0
  /\ UNCHANGED <<apiClientOpen, peerConnected, headerLines, headerTimeouts, payloadLen>>
  /\ UNCHANGED <<callerVars, resultVars, drawVars>>

\* One iteration of the header loop. readStringUntil('\n') returns the blank
\* line "\r", another line, what it has after its 10 s timeout, or what it
\* has when the peer closes; only "\r" leaves the loop.
HeaderRead ==
  /\ fpc = "SkipHeaders"
  /\ peerConnected
  /\ \E got \in {"Blank", "Line", "Timeout", "Closed"} :
       /\ got \in {"Line", "Timeout"} => headerLines < MaxHeaderLines
       /\ headerLines' = headerLines + 1
       /\ headerTimeouts' = IF got = "Timeout" THEN headerTimeouts + 1 ELSE headerTimeouts
       /\ peerConnected' = (got # "Closed")
       /\ fpc' = IF got = "Blank" THEN "ReadBody" ELSE "SkipHeaders"
  /\ bodyElapsed' = 0
  /\ UNCHANGED <<apiClientOpen, payloadLen>>
  /\ UNCHANGED <<callerVars, resultVars, drawVars>>

\* while (apiClient.connected() || apiClient.available()) is false
BodyLoopExit ==
  /\ fpc = "ReadBody"
  /\ ~peerConnected
  /\ fpc' = "AfterBody"
  /\ UNCHANGED <<apiClientOpen, peerConnected, headerLines, headerTimeouts, bodyElapsed, payloadLen>>
  /\ UNCHANGED <<callerVars, resultVars, drawVars>>

\* A stretch of BodyTickMs of the body loop: bytes were appended to payload,
\* or none came (delay(10)), or the peer closed with nothing pending; then
\* if (millis() - startTime > 10000) break;
BodyRead ==
  /\ fpc = "ReadBody"
  /\ peerConnected
  /\ \E got \in {"Byte", "Nothing", "Closed"} :
       /\ payloadLen' = IF got = "Byte" THEN Min(payloadLen + 1, MaxPayloadLen) ELSE payloadLen
       /\ peerConnected' = (got # "Closed")
  /\ bodyElapsed' = bodyElapsed + BodyTickMs
  /\ fpc' = IF bodyElapsed' > ReadTimeoutMs THEN "AfterBody" ELSE "ReadBody"
  /\ UNCHANGED <<apiClientOpen, headerLines, headerTimeouts>>
  /\ UNCHANGED <<callerVars, resultVars, drawVars>>

\* apiClient.stop(); after the body loop
StopClient ==
  /\ fpc = "AfterBody"
  /\ apiClientOpen' = stop(apiClientOpen)
  /\ fpc' = "Parse"
  /\ UNCHANGED <<peerConnected, headerLines, headerTimeouts, bodyElapsed, payloadLen>>
  /\ UNCHANGED <<callerVars, resultVars, drawVars>>

\* if (payload.length() == 0) return "";
PayloadEmpty ==
  /\ fpc = "Parse"
  /\ payloadLen = 0
  /\ ReturnsEmpty("EmptyResponse")
  /\ UNCHANGED <<apiClientOpen, peerConnected, headerLines, headerTimeouts, bodyElapsed, payloadLen>>
  /\ UNCHANGED <<callerVars, drawVars>>

\* deserializeJson reports an error: return "";
ParseFails ==
  /\ fpc = "Parse"
  /\ payloadLen > 0
  /\ ReturnsEmpty("ParseError")
  /\ UNCHANGED <<apiClientOpen, peerConnected, headerLines, headerTimeouts, bodyElapsed, payloadLen>>
  /\ UNCHANGED <<callerVars, drawVars>>

\* the payload parsed to doc: count, draw and select
ParseSelects ==
  /\ fpc = "Parse"
  /\ payloadLen > 0
  /\ \E doc \in Listings :
       \E randomIndex \in random(0, CountImages(doc)) :
         LET r == SelectFromListing(doc, randomIndex)
         IN /\ fetchOutcome' = r.outcome
            /\ listing' = doc
            /\ imageCount' = r.count
            /\ imageUrl' = r.url
            /\ drawnIndex' = randomIndex
  /\ fpc' = "Returned"
  /\ UNCHANGED <<apiClientOpen, peerConnected, headerLines, headerTimeouts, bodyElapsed, payloadLen>>
  /\ UNCHANGED <<callerVars, drawVars>>

FetchNext ==
  \/ WiFiCheck
  \/ Connect
  \/ ConnectFailed
  \/ HeaderLoopExit
  \/ HeaderRead
  \/ BodyLoopExit
  \/ BodyRead
  \/ StopClient
  \/ PayloadEmpty
  \/ ParseFails
  \/ ParseSelects

FetchSpec == FetchInit /\ [][FetchNext]_vars

\* =================================================================== claims
ListingFailures == FetchFailures \cup {"EmptyDirectory", "FellThrough"}
DownloadStages == {"Open", "Download"}

\* C1: in every cycle the attempt counter starts at 0, never exceeds 6, every
\* listing fetch belongs to a counted attempt (so at most 6 are issued), and with
\* 6 attempts made the only way on is out of the while loop.
C1_AttemptsBounded ==
  /\ [](attempt \in 0..6 /\ fetches \in 0..6 /\ fetches <= attempt)
  /\ [][pc = "Idle" => (attempt' = 0 /\ fetches' = 0)]_vars
  /\ [][fetches' # fetches /\ pc # "Idle" =>
          (fetches' = fetches + 1 /\ fetches' = attempt)]_vars
  /\ [][(pc = "WhileTest" /\ attempt >= 6) => pc' = "AfterLoop"]_vars

C1_Witness ==
  pc = "AfterLoop" /\ attempt = 6 /\ fetches = 6 /\ displayImageResult = -2

\* C2: a render stage that does not complete a decode is never a success: the
\* attempt's result is not 0 and the cycle is not reported successful on it.
C2_RenderFailureReported ==
  (stage = "Render" /\ renderOutcome \in RenderFailures)
    => (displayImageResult # 0 /\ report # "Success")

\* C3: an asset that reached the verify step and whose first four bytes are not
\* the PNG signature (shorter assets included) gives -3 and leaves no file.
HasPngSignature(b) == Len(b) >= 4 /\ SubSeq(b, 1, 4) = <<137, 80, 78, 71>>

C3_NonPngRejected ==
  (stage \in {"Verify", "Render"} /\ ~HasPngSignature(asset))
    => (displayImageResult = -3 /\ ~slot.exists)

\* C4: a cycle whose last attempt decoded the image is reported as a success,
\* whatever the attempt's number; "Exhausted" is reported only when no attempt
\* succeeded.
C4_SuccessNeverExhausted ==
  /\ (report # "None" /\ renderOutcome = "Decoded") => report = "Success"
  /\ report = "Exhausted" => displayImageResult # 0

\* C5 as stated: after a download-stage failure with attempts left the controller
\* waits 10 seconds.
C5_Original ==
  (pc = "WhileTest" /\ stage \in DownloadStages /\ attempt < 6)
    => loopDelay = 10000

\* C5 amended: a download-stage failure (result -1 or -2) is a counted attempt;
\* the controller waits 5 seconds, then restarts at FetchListing when the count
\* is under 6 and otherwise leaves the loop and reports the cycle exhausted.
C5_DownloadFailureBackoff ==
  /\ [][(pc = "ResultTest" /\ stage \in DownloadStages) =>
          /\ displayImageResult \in {-1, -2}
          /\ attempt \in 1..6 /\ attempt' = attempt
          /\ pc' = "WhileTest"
          /\ loopDelay' = 5000]_vars
  /\ [][(pc = "WhileTest" /\ stage \in DownloadStages) =>
          IF attempt < 6 THEN pc' = "FetchListing" ELSE pc' = "AfterLoop"]_vars
  /\ [][(pc = "AfterLoop" /\ stage \in DownloadStages) =>
          report' = "Exhausted"]_vars

C5_Witness ==
  /\ pc = "WhileTest" /\ stage = "Download" /\ displayImageResult = -2
  /\ attempt < 6 /\ loopDelay = 5000

\* C6: a listing failure is a counted attempt; under 6 the controller has waited
\* 10 seconds when it comes back to the loop test, at 6 it has not waited.
C6_ListingFailureBackoff ==
  (pc = "WhileTest" /\ fetchOutcome \in ListingFailures)
    => /\ attempt \in 1..6
       /\ IF attempt < 6 THEN loopDelay = 10000 ELSE loopDelay = 0

\* C7 as stated: once the slot could not be opened for writing, no further
\* fetch or download attempt is begun.
C7_Original ==
  [][stage = "Open" => pc' \notin {"FetchListing", "Display"}]_vars

\* C7 amended: a failed open of the slot for writing gives -1 and is an ordinary
\* counted attempt: the controller waits 5 seconds, restarts at FetchListing
\* when the count is under 6, otherwise reports the cycle exhausted, and the
\* next cycle starts again from attempt 0.
C7_StorageErrorRetried ==
  /\ [][(pc = "ResultTest" /\ stage = "Open") =>
          /\ displayImageResult = -1
          /\ pc' = "WhileTest" /\ loopDelay' = 5000 /\ attempt' = attempt]_vars
  /\ [][(pc = "WhileTest" /\ stage = "Open") =>
          IF attempt < 6
          THEN pc' = "FetchListing" /\ attempt' = attempt + 1
          ELSE pc' = "AfterLoop"]_vars
  /\ [][(pc = "AfterLoop" /\ stage = "Open") =>
          (pc' = "Idle" /\ report' = "Exhausted")]_vars
  /\ [][(pc = "Idle" /\ stage = "Open") =>
          (pc' = "WhileTest" /\ attempt' = 0)]_vars

C7_Witness ==
  /\ pc = "WhileTest" /\ stage = "Open" /\ displayImageResult = -1
  /\ attempt \in 1..5 /\ loopDelay = 5000 /\ ~slot.exists

\* C8: an UnsupportedFormat result (-3) does not end the cycle while attempts
\* are left: the controller goes back to the loop test without the 10 s or the
\* 5 s wait and restarts at FetchListing; at 6 attempts the cycle is exhausted.
C8_UnsupportedRetriedAtOnce ==
  /\ [][(pc = "ResultTest" /\ displayImageResult = -3) =>
          /\ pc' = "WhileTest" /\ attempt' = attempt
          /\ loopDelay' \notin {10000, 5000}]_vars
  /\ [][(pc = "WhileTest" /\ displayImageResult = -3) =>
          IF attempt < 6
          THEN pc' = "FetchListing" /\ attempt' = attempt + 1
          ELSE pc' = "AfterLoop"]_vars
  /\ [][(pc = "AfterLoop" /\ displayImageResult = -3) =>
          report' = "Exhausted"]_vars

C8_Witness ==
  /\ pc = "WhileTest" /\ displayImageResult = -3 /\ stage = "Verify"
  /\ attempt \in 1..5 /\ loopDelay = 500 /\ ~slot.exists

\* C9: imageCount is the number of entries of type "file" whose name ends in
\* ".png", letter case ignored.
ToLower(c) ==
  CASE c = "P" -> "p" [] c = "N" -> "n" [] c = "G" -> "g" [] OTHER -> c

EndsWithNoCase(name, suffix) ==
  /\ Len(name) >= Len(suffix)
  /\ \A i \in 1..Len(suffix) :
       ToLower(name[Len(name) - Len(suffix) + i]) = ToLower(suffix[i])

IsPngFile(item) ==
  item.type = "file" /\ EndsWithNoCase(item.name, <<".", "p", "n", "g">>)

C9_FilterIsSuffixNoCase ==
  (pc = "UrlTest" /\ fetchOutcome \in {"EmptyDirectory", "Selected", "FellThrough"})
    => imageCount = Len(SelectSeq(listing, IsPngFile))

\* C10: a parsed listing in which the filter counts no file makes the fetch
\* return the empty URL, and in that attempt displayImage() is not called: no
\* download is started and the slot keeps its content.
C10_EmptyListingNoDownload ==
  /\ []((pc = "UrlTest" /\ fetchOutcome \notin FetchFailures /\ imageCount = 0)
          => (fetchOutcome = "EmptyDirectory" /\ imageUrl = <<>>))
  /\ [](fetchOutcome = "EmptyDirectory"
          => /\ pc \in {"UrlTest", "WhileTest", "AfterLoop", "Idle"}
             /\ stage = "None" /\ asset = <<>>
             /\ displayImageResult = NotAssigned)
  /\ [][(fetchOutcome = "EmptyDirectory" \/ fetchOutcome' = "EmptyDirectory")
          => slot' = slot]_vars

C10_Witness ==
  /\ pc = "WhileTest" /\ fetchOutcome = "EmptyDirectory" /\ loopDelay = 10000
  /\ attempt >= 2 /\ slot.exists /\ stage = "None"

\* C12: every cycle ends through the code after the while loop, which waits
\* 60 seconds whether it reports success or exhaustion; loop() returns by no
\* other path.
C12_SameCycleDelay ==
  /\ []((pc = "Idle" /\ report # "None") => loopDelay = 60000)
  /\ [][pc = "AfterLoop" => (pc' = "Idle" /\ loopDelay' = 60000)]_vars
  /\ [][(pc # "Idle" /\ pc' = "Idle") => pc = "AfterLoop"]_vars
  /\ [][(pc = "WhileTest" \/ pc = "ResultTest") =>
          pc' \in {"WhileTest", "ResultTest", "FetchListing", "AfterLoop"}]_vars

C12_Witness ==
  /\ pc = "Idle" /\ report = "Success" /\ displayImageResult = 0
  /\ attempt < 6 /\ loopDelay = 60000

\* C13: when displayImage() opens the slot for writing the previous file has
\* been removed, when the transfer begins to write the slot is empty, and after
\* the transfer the slot holds nothing but this attempt's asset.
C13_PreviousAssetRemoved ==
  stage # "None" =>
    /\ ~slotAtOpen.exists
    /\ stage # "Open" =>
         /\ slotAtWrite = File(<<>>)
         /\ slot.exists => slot.bytes = asset
    /\ \A k \in DOMAIN slotOps :
         (slotOps[k].op = "remove" /\ \E j \in DOMAIN slotOps : slotOps[j].h = "f" /\ j < k)
           => stage = "Verify"

C13_Witness ==
  /\ stage = "Render" /\ attempt >= 2
  /\ slotOps[1].op = "remove" /\ slotOps[2] = [op |-> "open", h |-> "f", held |-> {}]
  /\ slot = File(asset) /\ Len(asset) = 8

\* C14: an asset that reached the verify step and begins with the four
\* signature bytes is not deleted: displayImage() goes on to drawImageFile()
\* with the asset in the slot.
C14_PngKept ==
  (stage \in {"Verify", "Render"} /\ HasPngSignature(asset))
    => /\ stage = "Render"
       /\ renderOutcome # "None"
       /\ displayImageResult = 0
       /\ slot = File(asset)
       /\ \A k \in DOMAIN slotOps : k > 1 => slotOps[k].op # "remove"

C14_Witness ==
  /\ stage = "Render" /\ HasPngSignature(asset) /\ Len(asset) = 8
  /\ renderOutcome = "Decoded" /\ slot = File(asset)

\* C15: whenever png.open was called (myOpen ran, or the render ended in the
\* decoder), the file in the slot begins with the four signature bytes.
DecoderOpened ==
  \/ renderOutcome \in {"Decoded", "DecodeFailed", "PngOpenFailed"}
  \/ \E k \in DOMAIN slotOps : slotOps[k].h = "myfile"

C15_DecoderOnlyOnPng ==
  DecoderOpened => (slot.exists /\ HasPngSignature(slot.bytes))

C15_Witness ==
  /\ renderOutcome = "DecodeFailed" /\ HasPngSignature(slot.bytes)
  /\ \E k \in DOMAIN slotOps : slotOps[k] = [op |-> "open", h |-> "myfile", held |-> {}]

\* C17: with a filtered count N > 0 and a drawn index i in 0..N-1 the fetch
\* returns the URL of the i-th entry, in listing order, that passes the filter:
\* the base URL followed by that entry's name; it never falls through.
C17_SelectsDrawnEntry ==
  (pc = "UrlTest" /\ imageCount > 0) =>
    LET filtered == SelectSeq(listing, IsImageEntry)
    IN /\ fetchOutcome = "Selected"
       /\ imageCount = Len(filtered)
       /\ drawnIndex \in 0..(imageCount - 1)
       /\ imageUrl = rawGithubUrl \o filtered[drawnIndex + 1].name

C17_Witness ==
  /\ pc = "UrlTest" /\ Len(listing) = 2 /\ imageCount = 1
  /\ ~IsImageEntry(listing[1]) /\ drawnIndex = 0
  /\ imageUrl = rawGithubUrl \o listing[2].name

\* C18: every storage call that opens or removes the slot is made with no
\* handle on the slot open, and when drawImageFile() has run no handle of the
\* decoder is left open.
C18_HandlesReleased ==
  /\ \A k \in DOMAIN slotOps :
       slotOps[k].op \in {"open", "openfail", "remove"} => slotOps[k].held = {}
  /\ stage = "Render" => ~myfileOpen

\* C11: every drawRGBBitmap call of PNGDraw stays on the surface: its columns
\* end before the surface width, its row is below the surface height, the
\* line is clipped to the surface width and starts at max(0, (W - width) / 2).
C11_BlitOnSurface ==
  blit.w > 0 =>
    /\ blit.x >= 0
    /\ blit.x + blit.w <= 64
    /\ blit.y < 64
    /\ blit.w = (IF iWidth > 64 THEN 64 ELSE iWidth)
    /\ blit.x = (IF iWidth >= 64 THEN 0 ELSE (64 - iWidth) \div 2)

\* C20: no call of PNGDraw writes more than 64 entries into lineBuf.
C20_LineBufBounded ==
  lineBufWritten <= LineBufSize

\* C16: a listing fetch does not go on past a read timeout: the header loop
\* is left once a read has timed out, the body loop is left once 10 s have
\* passed, and a fetch that got as far as the body and read no byte returns
\* EmptyResponse.
C16_FetchAlwaysReturns ==
  /\ headerTimeouts <= 1
  /\ (fpc = "ReadBody" => bodyElapsed <= 10000)
  /\ (fpc = "Returned" /\ payloadLen = 0 /\ fetchOutcome \notin {"WiFiDown", "NetworkError"}
        => fetchOutcome = "EmptyResponse")

\* C19: when getRandomImageUrl has returned, the connection it used is closed.
C19_ConnectionClosed ==
  fpc = "Returned" => ~apiClientOpen

C19_Witness ==
  /\ fpc = "Returned"
  /\ fetchOutcome = "Selected"
  /\ headerLines > 0
  /\ payloadLen > 0
  /\ ~apiClientOpen

====
